---- MODULE Spec2Model ----
(***************************************************************************)
(* Dual-leg order execution engine of TradingStrategy                      *)
(* (src/trading_strategy.py) with the broker wrapper AlgoKM (src/mani.py). *)
(*                                                                         *)
(* The strategy object holds one conditional (GTT) order per leg, CE and   *)
(* PE.  place_option_orders submits them; the monitoring loop then takes   *)
(* lifecycle events off portfolio_update_queue and hands each one to       *)
(* process_portfolio_update, which re-enters a leg, cancels the sibling    *)
(* leg or does nothing.  The broker and the event stream are the           *)
(* environment: every broker call may succeed, fail with ApiException or   *)
(* fail with another exception, and the stream may deliver any event, in   *)
(* any order, any number of times.                                         *)
(*                                                                         *)
(* execute_strategy runs the startup steps (price capture, contract        *)
(* resolution, high tracking) and returns; place_option_orders and         *)
(* monitor_portfolio_updates are public methods a caller may invoke on the *)
(* object afterwards.                                                      *)
(***************************************************************************)
EXTENDS Integers, Sequences, FiniteSets, TLC

VARIABLES
    pc,                  \* "start", "resolve", "track": inside execute_strategy; "ready": execute_strategy returned; "monitor": in the loop of monitor_portfolio_updates; "exited": loop left
    sensex_price,        \* the local sensex_price of execute_strategy (0: None or not bound), in tenths of a point
    instrument_key,      \* ce_instrument_key / pe_instrument_key: the strike of the leg's contract (0: None)
    steps,               \* history: the steps execute_strategy has run
    queued,              \* the number of events in portfolio_update_queue
    calc,                \* one application of buyStock's price computation or of the strike rounding: its inputs and, once applied, its result
    cap,                 \* capture_sensex_price_at_917 in progress: its position, its attempt counter and what it returned or raised
    trk,                 \* track_high_prices in progress: the clock, the configured times, the loop's locals and position
    placed,              \* history: per leg, the buy_price of each order place_option_orders got accepted, in order
    pending,             \* portfolio_update_queue: the events in it, oldest first, each named by its arrival number
    fetch,               \* intraday_history_per_minute in progress: max_retries, the requests made and what they gave, the sleeps, the result
    chain,               \* AlgoKM.option_contracts, the background fetch thread and a foreground get_option_contracts call
    sensex_price_at_917, \* the field sensex_price_at_917 as execute_strategy tests it: the value given at construction (0: None); the live capture path stores its price there after that test, and nothing reads the field again
    high_price,          \* ce_high_price / pe_high_price
    gtt_order_id,        \* ce_gtt_order_id / pe_gtt_order_id
    stoploss_hit_count,  \* ce_stoploss_hit_count / pe_stoploss_hit_count
    reentry_placed,      \* the shared re-entry flag
    leg_reentry_placed,  \* ce_reentry_placed / pe_reentry_placed
    nextId,              \* broker: the identifier the next accepted order gets
    live,                \* broker: per leg, the identifier of its latest accepted order (0: none)
    nEvents,             \* history: events taken off the queue so far
    buyCalls,            \* history: buyStock calls made by the event handler
    accepted,            \* history: handler buyStock calls the broker accepted
    terminated,          \* history: the branch "combined stop-loss count == 2" has run
    terminalIds,         \* history: order ids whose TARGET event has been processed
    last                 \* history: the last event taken off the queue and what the handler did with it

vars == <<pc, sensex_price, instrument_key, steps, queued, pending, placed, calc, cap, trk, fetch, chain, sensex_price_at_917, high_price, gtt_order_id, stoploss_hit_count, reentry_placed,
          leg_reentry_placed, nextId, live, nEvents, buyCalls, accepted,
          terminated, terminalIds, last>>

\* The fields of the strategy object the event handler reads and writes.
strategyVars == <<gtt_order_id, stoploss_hit_count, reentry_placed, leg_reentry_placed>>

(***************************************************************************)
(* Bounds                                                                  *)
(***************************************************************************)
\* Events the monitoring loop takes off the queue in one run.
MaxEvents == 3
\* Events taken off the queue in the runs that record each event's rules.
MaxClassifyEvents == 1
\* The highest base price given to buyStock, in hundredths of a rupee.
MaxBasePrice == 25050
\* The highest index level given to the strike rounding, in tenths of a point.
MaxSensexPrice == 815600
\* The last day given to get_thursday_date as today (day 0 is a Monday).
MaxDay == 13

(***************************************************************************)
(* Values                                                                  *)
(***************************************************************************)
Legs == {"CE", "PE"}

Other(L) == IF L = "CE" THEN "PE" ELSE "CE"

\* Index levels the price capture may return, in tenths of a point (81000.0
\* and 81040.0; the strike rounding is exercised over SensexPrices below).
SnapshotPrices == {810000, 810400}

\* Breakout highs the tracker may have left for a leg (0: no price seen).
HighPrices(L) == IF L = "CE" THEN {0, 260} ELSE {0, 230}

\* What a leg's order-id field can hold: None, a broker order id (a string
\* such as 'GTT-C25101200006152'), or the whole response object of
\* place_gtt_order (whose data.gtt_order_ids[0] is the id n).
None == [kind |-> "none", n |-> 0]

OrderId(n) == [kind |-> "id", n |-> n]

Response(n) == [kind |-> "resp", n |-> n]

\* Identifier carried by an event of an order that is not ours.
ForeignId == 0

Statuses == {"PENDING", "ACTIVE", "TRIGGERED", "FAILED", "CANCELLED", "COMPLETED"}

Strategies == {"ENTRY", "STOPLOSS", "TARGET"}

Rule(k, s) == [strategy |-> k, status |-> s]

\* Rules lists carrying all three kinds, in the order buyStock submits them
\* and in the opposite order.
WellFormedRules ==
    UNION { { <<Rule("ENTRY", e), Rule("STOPLOSS", s), Rule("TARGET", t)>>,
              <<Rule("TARGET", t), Rule("STOPLOSS", s), Rule("ENTRY", e)>> }
            : <<e, s, t>> \in Statuses \X Statuses \X Statuses }

\* Rules lists lacking a kind: two rules of different kinds, or no rule.
MalformedRules ==
    { <<Rule(k1, s1), Rule(k2, s2)>> :
        <<k1, s1, k2, s2>> \in { q \in Strategies \X Statuses \X Strategies \X Statuses : q[1] # q[3] } }
    \cup { <<>> }

RulesLists == WellFormedRules \cup MalformedRules

UpdateTypes == {"gtt_order", "order"}

\* Outcomes of AlgoKM.buyStock: the broker's response; None after an
\* ApiException it caught itself; any other exception, which it lets through.
BuyOutcomes == {"ok", "apiexc", "raise"}

\* Outcomes of AlgoKM.cancel_gtt_order as the caller sees them: a response
\* whose status is 'success', a response with another status, an exception
\* (cancel_gtt_order catches nothing).
CancelOutcomes == {"success", "failure", "raise"}

NoEvent ==
    [ut |-> "none", id |-> ForeignId, leg |-> "none", branch |-> "none", buy |-> "none",
     base |-> 0, cancels |-> <<>>, manual |-> FALSE, rules |-> <<>>]

(***************************************************************************)
(* process_portfolio_update: routing and classification                    *)
(***************************************************************************)
\* is_ce_order / is_pe_order: the leg's field is truthy and equals the
\* event's gtt_order_id (a string: a stored response object equals none).
\* Variant: a leg that holds any order takes every event as its own.
IsLegOrder_AnyId(L, id) ==
    /\ gtt_order_id[L].kind # "none"
    /\ id = id

IsLegOrder(L, id) ==
    /\ gtt_order_id[L].kind # "none"
    /\ gtt_order_id[L] = OrderId(id)

\* The index loop: the position of the last rule of that kind, and the
\* initial 0 (the first element) when the list has none.
RuleIndex(rules, kind) ==
    LET hits == { i \in 1..Len(rules) : rules[i].strategy = kind }
    IN  IF hits = {} THEN 1 ELSE CHOOSE i \in hits : \A j \in hits : j <= i


\* Variant: the STOPLOSS test misses the status COMPLETED.
StoplossStatuses_NoCompleted == {"ACTIVE", "TRIGGERED", "CANCELLED"}

StoplossStatuses == {"ACTIVE", "TRIGGERED", "CANCELLED", "COMPLETED"}

TargetStatuses == {"ACTIVE", "TRIGGERED", "COMPLETED"}

\* The if / elif chain over entry_rule, stoploss_rule and target_rule of a
\* non-empty rules list.
BranchOf(rules) ==
    LET stoploss_rule == rules[RuleIndex(rules, "STOPLOSS")]
        target_rule   == rules[RuleIndex(rules, "TARGET")]
        entry_rule    == rules[RuleIndex(rules, "ENTRY")]
    IN  IF entry_rule.strategy = "ENTRY" /\ entry_rule.status = "FAILED"
        THEN "EntryFailed"
        ELSE IF stoploss_rule.status \in StoplossStatuses /\ target_rule.status = "CANCELLED"
        THEN "StoplossPath"
        ELSE IF target_rule.strategy = "TARGET" /\ target_rule.status \in TargetStatuses
        THEN "TargetPath"
        ELSE "NoOp"

\* What the handler does with the rules list of an event of ours: the empty
\* list raises IndexError at rules[stoploss_index].
Outcome(rules) == IF rules = <<>> THEN "Error" ELSE BranchOf(rules)

\* One rules list for each outcome.  Where the history does not keep the
\* rules, the handler's effect depends on them through Outcome only.
BranchRepresentatives ==
    { CHOOSE r \in RulesLists : Outcome(r) = b : b \in { Outcome(r) : r \in RulesLists } }

\* What the history keeps of one handled event.
Hist(ev, L, branch, buy, cancels, manual, keep) ==
    [ut |-> ev.ut, id |-> ev.id, leg |-> L, branch |-> branch, buy |-> buy,
     base |-> IF buy = "none" THEN 0 ELSE high_price[L],
     cancels |-> cancels, manual |-> manual,
     rules |-> IF keep THEN ev.rules ELSE <<>>]

Call(arg, result) == [arg |-> arg, result |-> result]

\* The broker's side of one buyStock call for leg L.
Broker(o, L) ==
    IF o = "ok"
    THEN /\ nextId' = nextId + 1
         /\ live' = [live EXCEPT ![L] = nextId]
    ELSE UNCHANGED <<nextId, live>>

(***************************************************************************)
(* process_portfolio_update: the three branches                            *)
(***************************************************************************)
\* ENTRY FAILED: the field after `buyStock(...).data.gtt_order_ids[0]`; both
\* failures of the call leave the assignment undone.
EntryFailedOrderId(o, L) ==
    IF o = "ok" THEN [gtt_order_id EXCEPT ![L] = OrderId(nextId)] ELSE gtt_order_id


\* Variant: the ENTRY FAILED branch forgets to set reentry_placed.
EntryFailedFlag_Unset(o) == reentry_placed

\* ENTRY FAILED: reentry_placed after the try block.
EntryFailedFlag(o) == IF o = "ok" THEN TRUE ELSE reentry_placed


\* Variant: the ENTRY FAILED branch counts as a stop-loss hit.
EntryFailedCount_Incremented(L) == [stoploss_hit_count EXCEPT ![L] = @ + 1]

\* ENTRY FAILED: the stop-loss counters, which the branch does not touch.
EntryFailedCount(L) == stoploss_hit_count

EntryFailedBranch(ev, L, keep) ==
    IF ~reentry_placed
    THEN \E o \in BuyOutcomes :
            /\ gtt_order_id' = EntryFailedOrderId(o, L)
            /\ reentry_placed' = EntryFailedFlag(o)
            /\ stoploss_hit_count' = EntryFailedCount(L)
            /\ Broker(o, L)
            /\ buyCalls' = buyCalls + 1
            /\ accepted' = IF o = "ok" THEN accepted + 1 ELSE accepted
            /\ last' = Hist(ev, L, "EntryFailed", o, <<>>, FALSE, keep)
            /\ UNCHANGED <<leg_reentry_placed, terminated, terminalIds>>
    ELSE /\ stoploss_hit_count' = EntryFailedCount(L)
         /\ last' = Hist(ev, L, "EntryFailed", "none", <<>>, FALSE, keep)
         /\ UNCHANGED <<gtt_order_id, reentry_placed, leg_reentry_placed, nextId, live,
                        buyCalls, accepted, terminated, terminalIds>>

\* STOPLOSS path: `self.ce_stoploss_hit_count += 1`.
StoplossCount(L) == [stoploss_hit_count EXCEPT ![L] = @ + 1]

\* STOPLOSS path: the field after `self.ce_gtt_order_id = buyStock(...)`:
\* the response object itself, None when buyStock caught an ApiException,
\* untouched when buyStock raised.
StoplossOrderId(o, L) ==
    CASE o = "ok"     -> [gtt_order_id EXCEPT ![L] = Response(nextId)]
      [] o = "apiexc" -> [gtt_order_id EXCEPT ![L] = None]
      [] OTHER        -> gtt_order_id

\* STOPLOSS path: reentry_placed after the try block.
StoplossFlag(o) == IF o = "raise" THEN reentry_placed ELSE TRUE

StoplossBranch(ev, L, keep) ==
    LET cnt == StoplossCount(L)
    IN  /\ stoploss_hit_count' = cnt
        /\ IF cnt["CE"] + cnt["PE"] = 2
           THEN \E c \in CancelOutcomes :
                   /\ terminated' = TRUE
                   /\ last' = Hist(ev, L, "StoplossPath", "none",
                                   <<Call(gtt_order_id[Other(L)], c)>>, FALSE, keep)
                   /\ UNCHANGED <<gtt_order_id, reentry_placed, leg_reentry_placed, nextId,
                                  live, buyCalls, accepted, terminalIds>>
           ELSE IF ~reentry_placed
           THEN \E o \in BuyOutcomes :
                   /\ gtt_order_id' = StoplossOrderId(o, L)
                   /\ reentry_placed' = StoplossFlag(o)
                   /\ leg_reentry_placed' =
                         IF o = "raise" THEN leg_reentry_placed
                         ELSE [leg_reentry_placed EXCEPT ![L] = TRUE]
                   /\ Broker(o, L)
                   /\ buyCalls' = buyCalls + 1
                   /\ accepted' = IF o = "ok" THEN accepted + 1 ELSE accepted
                   /\ last' = Hist(ev, L, "StoplossPath", o, <<>>, FALSE, keep)
                   /\ UNCHANGED <<terminated, terminalIds>>
           ELSE /\ last' = Hist(ev, L, "StoplossPath", "none", <<>>, FALSE, keep)
                /\ UNCHANGED <<gtt_order_id, reentry_placed, leg_reentry_placed, nextId,
                               live, buyCalls, accepted, terminated, terminalIds>>


\* Variant: the TARGET path keeps the winning leg's order id.
TargetOrderId_Kept(L) == gtt_order_id

\* TARGET path: `self.ce_gtt_order_id = None  # Stop monitoring`.
TargetOrderId(L) == [gtt_order_id EXCEPT ![L] = None]

\* TARGET path: the cancellation calls made for first and second outcome c1,
\* c2: the retry is made when the first response's status is not 'success';
\* an exception leaves the handler through its outer except clause.
TargetCancels(arg, c1, c2) ==
    IF c1 = "failure" THEN <<Call(arg, c1), Call(arg, c2)>> ELSE <<Call(arg, c1)>>

\* TARGET path: 'Please cancel the ... order manually' is printed.
TargetManual(c1, c2) == c1 = "failure" /\ c2 = "failure"

TargetBranch(ev, L, keep) ==
    \E c1 \in CancelOutcomes, c2 \in CancelOutcomes :
        /\ reentry_placed' = TRUE
        /\ gtt_order_id' = TargetOrderId(L)
        /\ terminalIds' = terminalIds \cup {ev.id}
        /\ last' = Hist(ev, L, "TargetPath", "none",
                        TargetCancels(gtt_order_id[Other(L)], c1, c2),
                        TargetManual(c1, c2), keep)
        /\ UNCHANGED <<stoploss_hit_count, leg_reentry_placed, nextId, live, buyCalls,
                       accepted, terminated>>

\* An event the handler leaves without touching the strategy: another
\* update type, an order that is not ours, no branch taken, or an exception
\* caught by the outer except clause before any assignment.
Untouched(ev, L, branch, keep) ==
    /\ last' = Hist(ev, L, branch, "none", <<>>, FALSE, keep)
    /\ UNCHANGED <<gtt_order_id, stoploss_hit_count, reentry_placed, leg_reentry_placed,
                   nextId, live, buyCalls, accepted, terminated, terminalIds>>

\* The handler on an event of one of our two orders.
Routed(ev, L, keep) ==
    IF ev.rules = <<>>
    THEN Untouched(ev, L, "Error", keep)
    ELSE LET b == BranchOf(ev.rules)
         IN  CASE b = "EntryFailed"  -> EntryFailedBranch(ev, L, keep)
               [] b = "StoplossPath" -> StoplossBranch(ev, L, keep)
               [] b = "TargetPath"   -> TargetBranch(ev, L, keep)
               [] OTHER              -> Untouched(ev, L, "NoOp", keep)

\* process_portfolio_update on an event with the given update_type and
\* gtt_order_id; the rules are read only when the order is ours.
ProcessPortfolioUpdate(ut, id, keep) ==
    IF ut # "gtt_order"
    THEN Untouched([ut |-> ut, id |-> id, rules |-> <<>>], "none", "NotGtt", keep)
    ELSE IF ~(IsLegOrder("CE", id) \/ IsLegOrder("PE", id))
    THEN Untouched([ut |-> ut, id |-> id, rules |-> <<>>], "none", "NotOurs", keep)
    ELSE \E rules \in (IF keep THEN RulesLists ELSE BranchRepresentatives) :
            Routed([ut |-> ut, id |-> id, rules |-> rules],
                   IF IsLegOrder("CE", id) THEN "CE" ELSE "PE", keep)

(***************************************************************************)
(* execute_strategy                                                        *)
(***************************************************************************)
\* Variant: a tie goes up.
RoundHalfUp(n, d) ==
    LET q == n \div d
        r == n % d
    IN  IF 2 * r < d THEN q ELSE q + 1

\* Python's round(): to the nearest integer, a tie to the even one (n, d > 0).
RoundHalfEven(n, d) ==
    LET q == n \div d
        r == n % d
    IN  IF 2 * r < d THEN q
        ELSE IF 2 * r > d THEN q + 1
        ELSE IF q % 2 = 0 THEN q ELSE q + 1

\* rounded_strike of get_option_contracts, for a price in tenths of a point.
RoundedStrike(price) == RoundHalfEven(price, 1000) * 100

(***************************************************************************)
(* AlgoKM.buyStock: the prices of the three rules                          *)
(*                                                                         *)
(* Arithmetic is exact; the error of binary floating point is not          *)
(* modelled.  A price inside the computation is an integer count of        *)
(* 1/PriceScale of a hundredth of a rupee, the unit in which every         *)
(* percentage below is exact.                                              *)
(***************************************************************************)
PriceScale == 400

\* tick_size=0.05
TickSize == 5 * PriceScale

round_to_tick_size(price) == RoundHalfEven(price, TickSize) * TickSize

\* The percentages the constructor of AlgoKM takes (buy, stop-loss, target),
\* in hundredths of a percent: the defaults 1.5, 1.25, 2.5 and another choice.
DefaultPercentages == <<150, 125, 250>>

Percentages == {DefaultPercentages, <<200, 100, 300>>}

\* buy_price, stop_loss_value and target_value of buyStock for a base price
\* in hundredths of a rupee.  The percentages 1.5, -1.25 and 3 are literals
\* of the code; the configured ones are not read.
buyStock(buy_price, tick_size) ==
    LET p     == buy_price * PriceScale
        buy   == IF tick_size THEN round_to_tick_size(p + (p * 3) \div 200) ELSE p
        stop0 == buy - (buy * 5) \div 400
        stop  == IF tick_size THEN round_to_tick_size(stop0) ELSE stop0
        tgt0  == buy + (buy * 3) \div 100
        tgt   == IF tick_size THEN round_to_tick_size(tgt0) ELSE tgt0
    IN  <<buy, stop, tgt>>

BasePrices == 24950..MaxBasePrice

SensexPrices == 814000..MaxSensexPrice

(***************************************************************************)
(* AlgoKM.get_thursday_date                                                *)
(*                                                                         *)
(* A date is its day number, day 0 being a Monday; the function returns    *)
(* the date formatted as 'YYYY-MM-DD', of which the model keeps the day.   *)
(***************************************************************************)
\* date.weekday(): Monday is 0, Thursday is 3.
Weekday(day) == day % 7

\* Variant: on a Thursday the Thursday of the next week is taken.
days_until_thursday_Strict(weekday) == ((3 - weekday + 6) % 7) + 1

days_until_thursday(weekday) == (3 - weekday + 7) % 7

get_thursday_date(today) ==
    IF days_until_thursday(Weekday(today)) = 0
    THEN today
    ELSE today + days_until_thursday(Weekday(today))

Days == 0..MaxDay

NoCalc ==
    [fn |-> "none", arg |-> 0, tick_size |-> FALSE, pct |-> <<0, 0, 0>>,
     done |-> FALSE, out |-> <<0, 0, 0>>]

\* The inputs of one application.
CalcInputs ==
    { [NoCalc EXCEPT !.fn = "buyStock", !.arg = b, !.tick_size = t, !.pct = c] :
        <<b, t, c>> \in BasePrices \X BOOLEAN \X Percentages }
    \cup { [NoCalc EXCEPT !.fn = "strike", !.arg = x] : x \in SensexPrices }
    \cup { [NoCalc EXCEPT !.fn = "thursday", !.arg = d] : d \in Days }

\* The variables the startup steps leave alone.
orderVars == <<queued, pending, placed, calc, cap, trk, fetch, chain, gtt_order_id, stoploss_hit_count, reentry_placed, leg_reentry_placed,
               nextId, live, nEvents, buyCalls, accepted, terminated, terminalIds, last>>

\* Step 1: capture_sensex_price_at_917 returns a price, returns None (the
\* historical lookup found nothing, kept as 0) or raises; an exception
\* leaves execute_strategy through its except clause.
CaptureSensexPrice ==
    /\ pc = "start"
    /\ sensex_price_at_917 = 0
    /\ steps' = Append(steps, "capture")
    /\ \/ /\ sensex_price' \in SnapshotPrices \cup {0}
          /\ pc' = "resolve"
       \/ /\ sensex_price' = 0
          /\ pc' = "ready"
    /\ UNCHANGED <<instrument_key, high_price, sensex_price_at_917>>
    /\ UNCHANGED orderVars

\* Step 1 with a price supplied at construction: the capture is skipped,
\* the local sensex_price is never bound, and the print that follows it
\* raises UnboundLocalError, which the except clause of execute_strategy
\* reports.
UseSuppliedPrice ==
    /\ pc = "start"
    /\ sensex_price_at_917 # 0
    /\ pc' = "ready"
    /\ UNCHANGED <<sensex_price, sensex_price_at_917, steps, instrument_key, high_price>>
    /\ UNCHANGED orderVars

\* Variant: a chain that lacks the PE contract still yields the CE key and
\* the run goes on.
GetOptionContracts_OneSided ==
    /\ pc = "resolve"
    /\ steps' = Append(steps, "resolve")
    /\ \/ /\ sensex_price # 0
          /\ instrument_key' = [L \in Legs |-> RoundedStrike(sensex_price)]
       \/ /\ sensex_price # 0
          /\ instrument_key' = [CE |-> RoundedStrike(sensex_price), PE |-> 0]
    /\ pc' = "track"
    /\ UNCHANGED <<sensex_price, high_price>>
    /\ UNCHANGED sensex_price_at_917
    /\ UNCHANGED orderVars

\* Step 2: get_option_contracts_for_price sets both instrument keys, or
\* raises (no price, an empty chain, no CE or no PE contract at the strike,
\* a failing API call); the exception leaves execute_strategy through its
\* except clause.
GetOptionContracts ==
    /\ pc = "resolve"
    /\ steps' = Append(steps, "resolve")
    /\ \/ /\ sensex_price # 0
          /\ instrument_key' = [L \in Legs |-> RoundedStrike(sensex_price)]
          /\ pc' = "track"
          /\ UNCHANGED sensex_price
       \/ /\ pc' = "ready"
          /\ sensex_price' = 0
          /\ UNCHANGED instrument_key
    /\ UNCHANGED high_price
    /\ UNCHANGED sensex_price_at_917
    /\ UNCHANGED orderVars

\* Step 3: track_high_prices leaves each leg's highest price; steps 4 and 5
\* are commented out, so execute_strategy returns after it.
TrackHighPrices ==
    /\ pc = "track"
    /\ high_price["CE"] = 0 /\ high_price["PE"] = 0
    /\ steps' = Append(steps, "track")
    /\ high_price' \in { h \in [Legs -> {0, 230, 260}] : \A L \in Legs : h[L] \in HighPrices(L) }
    /\ pc' = "ready"
    /\ sensex_price' = 0
    /\ UNCHANGED instrument_key
    /\ UNCHANGED sensex_price_at_917
    /\ UNCHANGED orderVars

(***************************************************************************)
(* capture_sensex_price_at_917, step by step                               *)
(***************************************************************************)
\* The attempt budget of the live path.
max_attempts == 10

\* The loop of the live path is followed for this many reads.
MaxReads == 12

\* No history request in progress.
NoFetch == [stage |-> "idle"]

\* No get_option_contracts call in progress.
NoChain == [stage |-> "idle"]

\* A price supplied at construction.
SuppliedPrices == {810000}

\* No capture in progress.
NoCap == [stage |-> "idle", late |-> FALSE, attempt |-> 0, reads |-> 0, lookups |-> 0, result |-> "none"]

\* capture_sensex_price_at_917 is entered before or at the capture instant
\* (late = FALSE) or after it (late = TRUE).
CapInputs == { [NoCap EXCEPT !.stage = "enter", !.late = b] : b \in BOOLEAN }

\* What one read of the feed gives the live path: a Sensex tick with a
\* positive price, a message without one (another instrument, no ltp, an
\* extraction that returned None), the 5 second timeout, or an exception
\* while decoding.
LiveReads == {"tick", "no_price", "timeout", "exception"}

\* What price_at_917 finds: the bar of the capture instant, no such bar, or
\* no history at all (intraday_history_per_minute returned None).
Lookups == {"bar", "no_bar", "no_history"}

captureVars == <<instrument_key, high_price, queued, pending, placed, calc, trk, fetch, chain, gtt_order_id, stoploss_hit_count,
                 reentry_placed, leg_reentry_placed, nextId, live, nEvents, buyCalls,
                 accepted, terminated, terminalIds, last>>

\* capture_sensex_price_at_917 returns price (0: None) or, with raised set,
\* leaves through an exception, which the except clause of execute_strategy
\* reports; nothing of execute_strategy runs after that.
CaptureReturns(c, result, price, raised) ==
    /\ cap' = [c EXCEPT !.stage = "done", !.result = result]
    /\ sensex_price' = price
    /\ UNCHANGED sensex_price_at_917
    /\ pc' = IF raised THEN "ready" ELSE "resolve"
    /\ steps' = Append(steps, "capture")

\* The clock test on entry: after the capture instant the historical path is
\* taken, otherwise wait_until_time and the subscription precede the loop.
CaptureEnter ==
    /\ pc = "start" /\ cap.stage = "enter"
    /\ cap' = [cap EXCEPT !.stage = IF cap.late THEN "lookup" ELSE "live"]
    /\ UNCHANGED <<pc, sensex_price, steps, sensex_price_at_917>>
    /\ UNCHANGED captureVars

\* One pass of "while attempt < max_attempts": a tick with a positive price
\* is returned; a timeout or an exception adds one to attempt; a message
\* without a price goes round the loop with attempt as it was.
CaptureLiveRead ==
    /\ pc = "start" /\ cap.stage = "live"
    /\ cap.attempt < max_attempts
    /\ cap.reads < MaxReads
    /\ \E read \in LiveReads :
          CASE read = "tick" ->
                  \E price \in SnapshotPrices :
                     CaptureReturns([cap EXCEPT !.reads = @ + 1], "price", price, FALSE)
            [] read = "no_price" ->
                  /\ cap' = [cap EXCEPT !.reads = @ + 1]
                  /\ UNCHANGED <<pc, sensex_price, steps, sensex_price_at_917>>
            [] OTHER ->
                  /\ cap' = [cap EXCEPT !.attempt = @ + 1, !.reads = @ + 1]
                  /\ UNCHANGED <<pc, sensex_price, steps, sensex_price_at_917>>
    /\ UNCHANGED captureVars

\* The loop ended without a price: ValueError("Failed to capture Sensex
\* price at 9:17 AM").
CaptureLiveFails ==
    /\ pc = "start" /\ cap.stage = "live"
    /\ cap.attempt >= max_attempts
    /\ CaptureReturns(cap, "capture_failed", 0, TRUE)
    /\ UNCHANGED captureVars

\* The historical path: price_at_917, and when it gave nothing a 30 second
\* sleep and a second price_at_917 whose result is returned as it is.  With
\* no history price_at_917 calls .get on None and the AttributeError leaves
\* capture_sensex_price_at_917.
CaptureLookup ==
    /\ pc = "start" /\ cap.stage \in {"lookup", "retry"}
    /\ \E found \in Lookups :
          CASE found = "bar" ->
                  \E price \in SnapshotPrices :
                     CaptureReturns([cap EXCEPT !.lookups = @ + 1], "price", price, FALSE)
            [] found = "no_history" ->
                  CaptureReturns([cap EXCEPT !.lookups = @ + 1], "attribute_error", 0, TRUE)
            [] OTHER ->
                  IF cap.stage = "lookup"
                  THEN /\ cap' = [cap EXCEPT !.stage = "retry", !.lookups = @ + 1]
                       /\ UNCHANGED <<pc, sensex_price, steps, sensex_price_at_917>>
                  ELSE CaptureReturns([cap EXCEPT !.lookups = @ + 1], "none", 0, FALSE)
    /\ UNCHANGED captureVars

(***************************************************************************)
(* track_high_prices and wait_until_time, step by step                     *)
(***************************************************************************)
\* time_class(hour, minute) as minutes after midnight, and its two fields.
time_class(hour, minute) == 60 * hour + minute
Hour(t) == t \div 60
Minute(t) == t % 60

\* The configured window starts, the window end that goes with a start, and
\* the exit time.
StartTimes == {time_class(9, 17), time_class(9, 59)}
EndTime(start_time) == start_time + 13
ExitTime == time_class(15, 30)

\* The instants at which the clock is read.
Instants == {time_class(8, 50), time_class(9, 17), time_class(9, 18), time_class(9, 19),
             time_class(9, 30), time_class(9, 59), time_class(10, 0), time_class(10, 1),
             time_class(10, 12), time_class(15, 30)}

\* Prices a tick or a bar of an option can carry.
TickPrices == {230, 260}

Max(S) == CHOOSE x \in S : \A y \in S : x >= y

\* Variant: the fold keeps the latest candidate.
highMarketValue_Latest(current, high) == high

\* AlgoKM.highMarketValue.
highMarketValue(current, high) ==
    IF current = 0 THEN high
    ELSE IF current < high THEN high
    ELSE current

\* AlgoKM.highest_price_per_minute over the candles of a history that was
\* served: the fold of the highs of the candles stamped within
\* [start_time, end_time].
RECURSIVE highest_price_per_minute(_, _, _, _)
highest_price_per_minute(candles, start_time, end_time, highest_price) ==
    IF candles = <<>> THEN highest_price
    ELSE LET candle == Head(candles)
         IN  highest_price_per_minute(Tail(candles), start_time, end_time,
                IF start_time <= candle.time /\ candle.time <= end_time
                THEN highMarketValue(highest_price, candle.high)
                ELSE highest_price)

\* The highs highest_price_per_minute folds from a list of candles.
InWindowHighs(candles, start_time, end_time) ==
    { candles[i].high : i \in { j \in 1..Len(candles) :
                                  start_time <= candles[j].time /\ candles[j].time <= end_time } }

\* The time of the configured start with one added to its minute field, as
\* the loop computes it.
ReplayCutoff(start_time) == time_class(Hour(start_time), (Minute(start_time) + 1) % 60)

\* What intraday_history_per_minute returns at time now: None (ok = FALSE)
\* or up to two candles, in time order, of minutes that have begun.
Candles(start_time, now) ==
    { [time |-> t, high |-> p] :
        t \in { u \in {start_time - 1, start_time, EndTime(start_time), EndTime(start_time) + 1} : u <= now },
        p \in TickPrices }

Histories(start_time, now) ==
    {[ok |-> FALSE, candles |-> <<>>], [ok |-> TRUE, candles |-> <<>>]}
    \cup { [ok |-> TRUE, candles |-> <<a>>] : a \in Candles(start_time, now) }
    \cup { [ok |-> TRUE, candles |-> <<ab[1], ab[2]>>] :
              ab \in { c \in Candles(start_time, now) \X Candles(start_time, now) : c[1].time < c[2].time } }

\* The part of a decoded message for one leg as extract_i1_ohlc sees it:
\* not in the feeds, or in the feeds with a last traded price (-1: no ltpc)
\* and the high of the current 1-minute bar (-1: no I1 bar).
NoPart == [present |-> FALSE, ltp |-> -1, bar |-> -1]
Parts == {NoPart} \cup { [present |-> TRUE, ltp |-> l, bar |-> b] :
                           l \in {-1, 0} \cup TickPrices, b \in {-1} \cup TickPrices }

\* The handling of one leg's part of a message, from high h: the new high,
\* whether an exception was raised, and the candidates folded.  due: 30
\* seconds have passed since the leg's last catch-up read.
HandlePart(h, part, due) ==
    IF ~part.present THEN [high |-> h, raised |-> FALSE, folded |-> {}]
    ELSE IF part.ltp = -1 THEN [high |-> h, raised |-> TRUE, folded |-> {}]
    ELSE IF due /\ part.bar = -1 THEN [high |-> h, raised |-> TRUE, folded |-> {}]
    ELSE LET h1 == IF due THEN highMarketValue(h, part.bar) ELSE h
             h2 == IF part.ltp > 0 THEN highMarketValue(h1, part.ltp) ELSE h1
         IN  [high |-> h2, raised |-> FALSE,
              folded |-> (IF due THEN {part.bar} ELSE {}) \cup (IF part.ltp > 0 THEN {part.ltp} ELSE {})]

\* No tracking in progress.
NoTrk == [stage |-> "idle"]

\* track_high_prices about to be entered at time now with the given start.
TrkInputs ==
    { [stage |-> "enter", now |-> now, start_time |-> s, end_time |-> EndTime(s), exit_time |-> ExitTime,
       entry |-> -1, already_tracked |-> FALSE, replayed |-> FALSE,
       wait_entry |-> -1, slept |-> FALSE, returned_at |-> -1,
       seen |-> [L \in Legs |-> 0], offered |-> [L \in Legs |-> 0],
       window_offered |-> [L \in Legs |-> 0], result |-> "none"] :
      now \in Instants, s \in StartTimes }

trackVars == <<instrument_key, queued, pending, placed, calc, cap, fetch, chain, sensex_price_at_917, gtt_order_id, stoploss_hit_count,
               reentry_placed, leg_reentry_placed, nextId, live, nEvents, buyCalls,
               accepted, terminated, terminalIds, last>>

\* The clock moves on while track_high_prices runs.
ClockAdvances ==
    /\ pc = "track" /\ trk.stage \in {"enter", "loop", "wait", "recv"}
    /\ \E t \in Instants : t > trk.now /\ trk' = [trk EXCEPT !.now = t]
    /\ UNCHANGED <<pc, sensex_price, steps, high_price>>
    /\ UNCHANGED trackVars

\* The subscription and the initialisation of the highs and of the locals.
TrackEnter ==
    /\ pc = "track" /\ trk.stage = "enter"
    /\ trk' = [trk EXCEPT !.stage = "loop"]
    /\ high_price' = [L \in Legs |-> 0]
    /\ UNCHANGED <<pc, sensex_price, steps>>
    /\ UNCHANGED trackVars

\* track_high_prices is left with highs h: by break (result "returned") or by
\* an exception, which the except clause of execute_strategy reports;
\* either way execute_strategy is over, orders are not placed there.
TrackLeaves(t, h, result) ==
    /\ trk' = [t EXCEPT !.stage = "done", !.result = result, !.returned_at = t.now]
    /\ high_price' = h
    /\ pc' = "ready"
    /\ sensex_price' = 0
    /\ steps' = Append(steps, "track")

\* The exit-time test, then on into the try block.
ExitCheck(t, h) ==
    IF t.now >= t.exit_time
    THEN TrackLeaves([t EXCEPT !.already_tracked = TRUE], h, "returned")
    ELSE /\ trk' = [t EXCEPT !.stage = "wait", !.wait_entry = t.now, !.slept = FALSE]
         /\ high_price' = h
         /\ UNCHANGED <<pc, sensex_price, steps>>

\* Both histories are fetched, then folded CE first; a history that is None
\* makes highest_price_per_minute raise AttributeError outside any try.
\* final: the fold of the first branch, followed by break.
FoldHistories(t, final) ==
    \E ce_data \in Histories(t.start_time, t.now), pe_data \in Histories(t.start_time, t.now) :
       LET ce == highest_price_per_minute(ce_data.candles, t.start_time, t.end_time, high_price["CE"])
           pe == highest_price_per_minute(pe_data.candles, t.start_time, t.end_time, high_price["PE"])
           ceSeen == Max({t.seen["CE"]} \cup InWindowHighs(ce_data.candles, t.start_time, t.end_time))
           peSeen == Max({t.seen["PE"]} \cup InWindowHighs(pe_data.candles, t.start_time, t.end_time))
       IN  CASE ~ce_data.ok ->
                  TrackLeaves(t, high_price, "attribute_error")
             [] ce_data.ok /\ ~pe_data.ok ->
                  TrackLeaves([t EXCEPT !.seen["CE"] = ceSeen],
                              [high_price EXCEPT !["CE"] = ce], "attribute_error")
             [] OTHER ->
                  LET t2 == [t EXCEPT !.seen = [CE |-> ceSeen, PE |-> peSeen],
                                      !.already_tracked = TRUE]
                      h2 == [CE |-> ce, PE |-> pe]
                  IN  IF final THEN TrackLeaves(t2, h2, "returned") ELSE ExitCheck(t2, h2)

\* The top of "while True" down to the try block: the cut-off test with its
\* one-shot fold and break, the fold on entry inside the window, the
\* exit-time test.
TrackLoop ==
    /\ pc = "track" /\ trk.stage = "loop"
    /\ LET t == [trk EXCEPT !.entry = IF trk.entry = -1 THEN trk.now ELSE @]
       IN  IF t.now > ReplayCutoff(t.start_time)
           THEN IF ~t.already_tracked
                THEN FoldHistories([t EXCEPT !.replayed = TRUE], TRUE)
                ELSE TrackLeaves(t, high_price, "returned")
           ELSE IF t.start_time <= t.now /\ t.now <= t.end_time /\ ~t.already_tracked
                THEN FoldHistories([t EXCEPT !.already_tracked = TRUE], FALSE)
                ELSE ExitCheck(t, high_price)
    /\ UNCHANGED trackVars

\* Variant: returns at the first poll, whatever the clock shows.
WaitUntilTime_NoCheck ==
    /\ pc = "track" /\ trk.stage = "wait"
    /\ trk' = [trk EXCEPT !.stage = "recv", !.already_tracked = TRUE]
    /\ UNCHANGED <<pc, sensex_price, steps, high_price>>
    /\ UNCHANGED trackVars

\* wait_until_time(start_time) as called in the try block: one poll of its
\* loop, which returns when now >= target_time and sleeps a second
\* otherwise; after the return already_tracked is set.
WaitUntilTime ==
    /\ pc = "track" /\ trk.stage = "wait"
    /\ IF trk.now >= trk.start_time
       THEN trk' = [trk EXCEPT !.stage = "recv", !.already_tracked = TRUE]
       ELSE trk' = [trk EXCEPT !.slept = TRUE]
    /\ UNCHANGED <<pc, sensex_price, steps, high_price>>
    /\ UNCHANGED trackVars

\* The rest of the try block: recv with its 1 second timeout, decoding, the
\* CE part, then the PE part; TimeoutError and any other exception go back
\* to the top of the loop.
TrackReceive ==
    /\ pc = "track" /\ trk.stage = "recv"
    /\ \/ /\ trk' = [trk EXCEPT !.stage = "loop"]
          /\ UNCHANGED high_price
       \/ \E ce_part \in Parts, pe_part \in Parts, ce_due \in BOOLEAN, pe_due \in BOOLEAN :
             LET ce == HandlePart(high_price["CE"], ce_part, ce_due)
                 pe == IF ce.raised THEN [high |-> high_price["PE"], raised |-> TRUE, folded |-> {}]
                       ELSE HandlePart(high_price["PE"], pe_part, pe_due)
                 Offered(L, part) == IF part.present /\ part.ltp > 0
                                     THEN Max({trk.offered[L], part.ltp}) ELSE trk.offered[L]
             IN  /\ high_price' = [CE |-> ce.high, PE |-> pe.high]
                 /\ trk' = [trk EXCEPT !.stage = "loop",
                                       !.seen = [CE |-> Max({@["CE"]} \cup ce.folded),
                                                 PE |-> Max({@["PE"]} \cup pe.folded)],
                                       !.offered = [CE |-> Offered("CE", ce_part),
                                                    PE |-> Offered("PE", pe_part)],
                                       !.window_offered =
                                           IF trk.start_time <= trk.now /\ trk.now <= trk.end_time
                                           THEN [CE |-> Max({@["CE"], Offered("CE", ce_part)}),
                                                 PE |-> Max({@["PE"], Offered("PE", pe_part)})]
                                           ELSE @]
    /\ UNCHANGED <<pc, sensex_price, steps>>
    /\ UNCHANGED trackVars

(***************************************************************************)
(* intraday_history_per_minute, step by step                               *)
(***************************************************************************)
\* The largest max_retries a call is made with (the default is 3,
\* price_at_917 passes 2).
MaxRetries == 3

\* What one requests.get gives: HTTP 200 with non-empty JSON, HTTP 200 with
\* empty or null JSON, HTTP 200 whose body does not decode, another status,
\* or an exception of the request (timeout, connection error).
Responses == {"data", "empty", "bad_json", "http_error", "exception"}

\* A call of intraday_history_per_minute(instrument_key, max_retries): the
\* responses of the requests made so far, the sleeps taken, whether the
\* last thing done was a sleep, and the result.
FetchInputs ==
    { [stage |-> "loop", max_retries |-> n, log |-> <<>>, sleeps |-> 0,
       slept_last |-> FALSE, result |-> "none"] : n \in 0..MaxRetries }

fetchVars == <<pc, sensex_price, instrument_key, steps, queued, pending, placed, calc, cap, trk, chain,
               sensex_price_at_917, high_price, gtt_order_id, stoploss_hit_count,
               reentry_placed, leg_reentry_placed, nextId, live, nEvents, buyCalls,
               accepted, terminated, terminalIds, last>>

\* Variant: the sleep follows every failed attempt, the last one too.
FetchAttempt_SleepsAlways ==
    /\ fetch.stage = "loop"
    /\ Len(fetch.log) < fetch.max_retries
    /\ \E response \in Responses :
          IF response = "data"
          THEN fetch' = [fetch EXCEPT !.stage = "done", !.log = Append(@, response),
                                      !.slept_last = FALSE, !.result = "data"]
          ELSE fetch' = [fetch EXCEPT !.log = Append(@, response),
                                      !.sleeps = @ + 1, !.slept_last = TRUE]
    /\ UNCHANGED fetchVars

\* One pass of "for attempt in range(1, max_retries + 1)": the request; a
\* non-empty HTTP 200 JSON body is returned at once; anything else is
\* printed and, when attempt < max_retries, followed by the sleep.
FetchAttempt ==
    /\ fetch.stage = "loop"
    /\ Len(fetch.log) < fetch.max_retries
    /\ \E response \in Responses :
          LET attempt == Len(fetch.log) + 1
          IN  IF response = "data"
              THEN fetch' = [fetch EXCEPT !.stage = "done", !.log = Append(@, response),
                                          !.slept_last = FALSE, !.result = "data"]
              ELSE fetch' = [fetch EXCEPT !.log = Append(@, response),
                                          !.sleeps = IF attempt < fetch.max_retries THEN @ + 1 ELSE @,
                                          !.slept_last = attempt < fetch.max_retries]
    /\ UNCHANGED fetchVars

\* The loop is exhausted: "Failed to fetch data after retries", return None.
FetchGivesUp ==
    /\ fetch.stage = "loop"
    /\ Len(fetch.log) >= fetch.max_retries
    /\ fetch' = [fetch EXCEPT !.stage = "done", !.result = "None"]
    /\ UNCHANGED fetchVars

(***************************************************************************)
(* AlgoKM: the option chain pre-fetch thread and get_option_contracts      *)
(*                                                                         *)
(* The constructor starts a daemon thread that runs                        *)
(* get_option_contracts_response; get_option_contracts runs on the main    *)
(* thread.  Both read and write self.option_contracts without a lock, so   *)
(* every read and every write of the field is a step of its own.           *)
(***************************************************************************)
\* Strikes the fetched chain lists, a CE and a PE contract at each.
ChainStrikes == {81000}

\* Index levels given to get_option_contracts, in tenths of a point: one
\* whose rounded strike the chain lists and one whose it does not.
ChainPrices == {810000, 812000}

\* Values of self.option_contracts: None, or the response object of a
\* fetch: which thread made it and whether its data lists contracts.
NoContracts == [by |-> "none", data |-> "none"]

\* Outcomes of options_instance.get_option_contracts: a response with
\* contracts, a response without data, an exception.
ChainResponses == {"full", "empty", "exception"}

\* The value get_option_contracts_response assigns to self.option_contracts
\* when the thread `by` gets the outcome o: the response, or None in either
\* except clause.
get_option_contracts_response(by, o) ==
    IF o = "exception" THEN NoContracts ELSE [by |-> by, data |-> o]

\* A call of get_option_contracts(sensex_price) while the pre-fetch thread
\* has not written yet.  obtained is what the main thread saw at its test
\* of the field or fetched itself; response_dict is the local variable.
ChainInputs ==
    { [stage |-> "run", option_contracts |-> NoContracts, bg |-> "request",
       fg |-> "test", sensex_price |-> p, obtained |-> NoContracts,
       response_dict |-> NoContracts, result |-> "none"] : p \in ChainPrices }

chainVars == <<pc, sensex_price, instrument_key, steps, queued, pending, placed, calc, cap, trk,
               fetch, sensex_price_at_917, high_price, gtt_order_id, stoploss_hit_count,
               reentry_placed, leg_reentry_placed, nextId, live, nEvents, buyCalls, accepted,
               terminated, terminalIds, last>>

\* The pre-fetch thread: its request returns or raises and the thread
\* assigns the field.
BackgroundFetch ==
    /\ chain.stage = "run"
    /\ chain.bg = "request"
    /\ \E o \in ChainResponses :
          chain' = [chain EXCEPT !.bg = "done",
                                 !.option_contracts = get_option_contracts_response("bg", o)]
    /\ UNCHANGED chainVars

\* A read of self.option_contracts by the main thread.
ReadField(c) == c.option_contracts

\* `if not self.option_contracts:`.
ForegroundTest ==
    /\ chain.stage = "run"
    /\ chain.fg = "test"
    /\ chain' = IF chain.option_contracts = NoContracts
                THEN [chain EXCEPT !.fg = "fetch"]
                ELSE [chain EXCEPT !.fg = "hasattr", !.obtained = chain.option_contracts]
    /\ UNCHANGED chainVars

\* `self.get_option_contracts_response()` on the main thread.
ForegroundFetch ==
    /\ chain.stage = "run"
    /\ chain.fg = "fetch"
    /\ \E o \in ChainResponses :
          LET got == get_option_contracts_response("fg", o)
          IN  chain' = [chain EXCEPT !.fg = "hasattr", !.option_contracts = got,
                                     !.obtained = got]
    /\ UNCHANGED chainVars

\* `if hasattr(self.option_contracts, 'to_dict'):` None has no to_dict.
ForegroundHasattr ==
    /\ chain.stage = "run"
    /\ chain.fg = "hasattr"
    /\ chain' = [chain EXCEPT !.fg = IF ReadField(chain) = NoContracts
                                     THEN "assign" ELSE "to_dict"]
    /\ UNCHANGED chainVars

\* `response_dict = self.option_contracts.to_dict()`: AttributeError when
\* the field is None by now.
ForegroundToDict ==
    /\ chain.stage = "run"
    /\ chain.fg = "to_dict"
    /\ chain' = IF ReadField(chain) = NoContracts
                THEN [chain EXCEPT !.fg = "done", !.result = "AttributeError"]
                ELSE [chain EXCEPT !.fg = "get", !.response_dict = ReadField(chain)]
    /\ UNCHANGED chainVars

\* `response_dict = self.option_contracts` followed by `response_dict.get`:
\* AttributeError on None; a response object that arrived after the hasattr
\* test is not a dict, and what `.get` does on it is the client library's.
ForegroundAssign ==
    /\ chain.stage = "run"
    /\ chain.fg = "assign"
    /\ \/ /\ ReadField(chain) = NoContracts
          /\ chain' = [chain EXCEPT !.fg = "done", !.result = "AttributeError"]
       \/ /\ ReadField(chain) # NoContracts
          /\ \/ chain' = [chain EXCEPT !.fg = "done", !.result = "AttributeError"]
             \/ chain' = [chain EXCEPT !.fg = "get", !.response_dict = ReadField(chain)]
    /\ UNCHANGED chainVars

\* The lookup over response_dict: ValueError when the data is empty or the
\* rounded strike has no contract, the two instrument keys otherwise.
ForegroundLookup ==
    /\ chain.stage = "run"
    /\ chain.fg = "get"
    /\ chain' = [chain EXCEPT
                    !.fg = "done",
                    !.result = IF chain.response_dict.data = "empty" THEN "ValueError"
                               ELSE IF RoundedStrike(chain.sensex_price) \notin ChainStrikes
                               THEN "ValueError"
                               ELSE "keys"]
    /\ UNCHANGED chainVars

(***************************************************************************)
(* place_option_orders and the monitoring loop                             *)
(***************************************************************************)
\* Variant: a leg is submitted whether or not it has an order id.
place_option_orders_NoIdGuard ==
    IF high_price["CE"] <= 0 \/ high_price["PE"] <= 0
    THEN UNCHANGED <<gtt_order_id, nextId, live, placed>>
    ELSE \E oc \in BuyOutcomes, op \in BuyOutcomes :
            LET ceOk == instrument_key["CE"] # 0 /\ oc = "ok"
                n2   == IF ceOk THEN nextId + 1 ELSE nextId
                peOk == (oc = "ok" \/ instrument_key["CE"] = 0) /\ instrument_key["PE"] # 0 /\ op = "ok"
            IN  /\ gtt_order_id' = [CE |-> IF ceOk THEN OrderId(nextId) ELSE gtt_order_id["CE"],
                                    PE |-> IF peOk THEN OrderId(n2) ELSE gtt_order_id["PE"]]
                /\ nextId' = IF peOk THEN n2 + 1 ELSE n2
                /\ live' = [CE |-> IF ceOk THEN nextId ELSE live["CE"],
                            PE |-> IF peOk THEN n2 ELSE live["PE"]]
                /\ placed' = [CE |-> IF ceOk THEN Append(placed["CE"], high_price["CE"]) ELSE placed["CE"],
                              PE |-> IF peOk THEN Append(placed["PE"], high_price["PE"]) ELSE placed["PE"]]

\* The two submissions inside one try block: a failure of the CE call
\* skips the PE call.
place_option_orders ==
    IF high_price["CE"] <= 0 \/ high_price["PE"] <= 0
    THEN UNCHANGED <<gtt_order_id, nextId, live, placed>>
    ELSE \E oc \in BuyOutcomes, op \in BuyOutcomes :
            LET ceTried == instrument_key["CE"] # 0 /\ gtt_order_id["CE"].kind = "none"
                ceOk == ceTried /\ oc = "ok"
                ceId == IF ceOk THEN OrderId(nextId) ELSE gtt_order_id["CE"]
                n2   == IF ceOk THEN nextId + 1 ELSE nextId
                peTried == (oc = "ok" \/ ~ceTried)
                           /\ instrument_key["PE"] # 0 /\ gtt_order_id["PE"].kind = "none"
                peOk == peTried /\ op = "ok"
                peId == IF peOk THEN OrderId(n2) ELSE gtt_order_id["PE"]
            IN  /\ gtt_order_id' = [CE |-> ceId, PE |-> peId]
                /\ nextId' = IF peOk THEN n2 + 1 ELSE n2
                /\ live' = [CE |-> IF ceOk THEN nextId ELSE live["CE"],
                            PE |-> IF peOk THEN n2 ELSE live["PE"]]
                /\ placed' = [CE |-> IF ceOk THEN Append(placed["CE"], high_price["CE"]) ELSE placed["CE"],
                              PE |-> IF peOk THEN Append(placed["PE"], high_price["PE"]) ELSE placed["PE"]]

placeVars == <<sensex_price, instrument_key, steps, queued, pending, calc, cap, trk, fetch, chain,
               sensex_price_at_917, high_price, stoploss_hit_count, reentry_placed,
               leg_reentry_placed, nEvents, buyCalls, accepted, terminated, terminalIds, last>>

\* A call of place_option_orders after which the caller goes on to
\* monitor_portfolio_updates.
PlaceOptionOrders ==
    /\ pc = "ready"
    /\ pc' = "monitor"
    /\ place_option_orders
    /\ UNCHANGED placeVars

\* A call of place_option_orders after which the caller may call it again.
PlaceOptionOrdersAgain ==
    /\ pc = "ready"
    /\ UNCHANGED pc
    /\ place_option_orders
    /\ UNCHANGED placeVars

\* queue.Queue: put adds at the tail, get takes the oldest item.
QueuePut(q, item) == Append(q, item)

\* Variant: get takes the newest item.
QueueGet_Newest(q) == q[Len(q)]

QueueGet(q) == Head(q)

\* The queue after get has taken item out of it.
QueueRest(q, item) == SelectSeq(q, LAMBDA x : x # item)

\* The portfolio stream's thread delivers a message: handle_order_updates
\* puts it in the queue.  The queue holds arrival numbers and is also kept
\* as a count; what an event says is drawn when the loop takes it.
HandleOrderUpdates(bound) ==
    /\ pc # "start"
    /\ nEvents + queued < bound
    /\ queued' = queued + 1
    /\ pending' = QueuePut(pending, nEvents + queued + 1)
    /\ UNCHANGED <<pc, sensex_price, instrument_key, steps, placed, calc, cap, trk, fetch, chain, sensex_price_at_917, high_price, gtt_order_id,
                   stoploss_hit_count, reentry_placed, leg_reentry_placed, nextId, live,
                   nEvents, buyCalls, accepted, terminated, terminalIds, last>>

\* Variant: the loop still takes events after the exit time.
MonitorEvent_AfterExit(keep) ==
    /\ pc \in {"monitor", "exited"}
    /\ queued > 0
    /\ queued' = queued - 1
    /\ pending' = QueueRest(pending, QueueGet(pending))
    /\ nEvents' = nEvents + 1
    /\ \E ut \in UpdateTypes, id \in 0..(nextId - 1) : ProcessPortfolioUpdate(ut, id, keep)
    /\ UNCHANGED <<pc, sensex_price, instrument_key, steps, placed, calc, cap, trk, fetch, chain, sensex_price_at_917, high_price>>

\* One turn of the loop of monitor_portfolio_updates that finds an event in
\* the queue: any event the stream can have produced so far.
MonitorEvent(keep) ==
    /\ pc = "monitor"
    /\ queued > 0
    /\ queued' = queued - 1
    /\ pending' = QueueRest(pending, QueueGet(pending))
    /\ nEvents' = nEvents + 1
    /\ \E ut \in UpdateTypes, id \in 0..(nextId - 1) : ProcessPortfolioUpdate(ut, id, keep)
    /\ UNCHANGED <<pc, sensex_price, instrument_key, steps, placed, calc, cap, trk, fetch, chain, sensex_price_at_917, high_price>>

\* The turn of the loop that finds the exit time reached.
MonitorExit ==
    /\ pc = "monitor"
    /\ pc' = "exited"
    /\ UNCHANGED <<sensex_price, instrument_key, steps, queued, pending, placed, calc, cap, trk, fetch, chain, sensex_price_at_917, high_price, gtt_order_id, stoploss_hit_count, reentry_placed,
                   leg_reentry_placed, nextId, live, nEvents, buyCalls, accepted,
                   terminated, terminalIds, last>>

\* The strategy object after construction.
InitStrategy ==
    /\ pc = "start"
    /\ sensex_price = 0
    /\ instrument_key = [L \in Legs |-> 0]
    /\ steps = <<>>
    /\ queued = 0
    /\ pending = <<>>
    /\ placed = [L \in Legs |-> <<>>]
    /\ high_price = [L \in Legs |-> 0]
    /\ gtt_order_id = [L \in Legs |-> None]
    /\ stoploss_hit_count = [L \in Legs |-> 0]
    /\ reentry_placed = FALSE
    /\ leg_reentry_placed = [L \in Legs |-> FALSE]
    /\ nextId = 1
    /\ live = [L \in Legs |-> 0]
    /\ nEvents = 0
    /\ buyCalls = 0
    /\ accepted = 0
    /\ terminated = FALSE
    /\ terminalIds = {}
    /\ last = NoEvent

Init ==
    /\ InitStrategy
    /\ sensex_price_at_917 \in {0} \cup SuppliedPrices
    /\ calc = NoCalc
    /\ cap = NoCap
    /\ trk = NoTrk
    /\ fetch = NoFetch
    /\ chain = NoChain

Arrival == HandleOrderUpdates(MaxEvents)

MonitorStep == MonitorEvent(FALSE)

Next ==
    \/ CaptureSensexPrice
    \/ UseSuppliedPrice
    \/ GetOptionContracts
    \/ TrackHighPrices
    \/ PlaceOptionOrders
    \/ Arrival
    \/ MonitorStep
    \/ MonitorExit

Spec == Init /\ [][Next]_vars

\* The same program with the history keeping each event's rules list.
ClassifyArrival == HandleOrderUpdates(MaxClassifyEvents)

ClassifyStep == MonitorEvent(TRUE)

NextClassify ==
    \/ CaptureSensexPrice
    \/ UseSuppliedPrice
    \/ GetOptionContracts
    \/ TrackHighPrices
    \/ PlaceOptionOrders
    \/ ClassifyArrival
    \/ ClassifyStep
    \/ MonitorExit

SpecClassify == Init /\ [][NextClassify]_vars

\* The same program with a caller that may call place_option_orders more
\* than once before it starts monitoring.
NextPlace ==
    \/ Next
    \/ PlaceOptionOrdersAgain

SpecPlace == Init /\ [][NextPlace]_vars

\* The two computations on their own, applied to each input.
strategyState == <<pc, sensex_price, instrument_key, steps, queued, pending, placed, cap, trk, fetch, chain, sensex_price_at_917, high_price, gtt_order_id,
                   stoploss_hit_count, reentry_placed, leg_reentry_placed, nextId, live,
                   nEvents, buyCalls, accepted, terminated, terminalIds, last>>

BuyStockPrices ==
    /\ calc.fn = "buyStock" /\ ~calc.done
    /\ calc' = [calc EXCEPT !.done = TRUE, !.out = buyStock(calc.arg, calc.tick_size)]
    /\ UNCHANGED strategyState

StrikeRounding ==
    /\ calc.fn = "strike" /\ ~calc.done
    /\ calc' = [calc EXCEPT !.done = TRUE, !.out = <<RoundedStrike(calc.arg), 0, 0>>]
    /\ UNCHANGED strategyState

ThursdayDate ==
    /\ calc.fn = "thursday" /\ ~calc.done
    /\ calc' = [calc EXCEPT !.done = TRUE, !.out = <<get_thursday_date(calc.arg), 0, 0>>]
    /\ UNCHANGED strategyState

InitCalc ==
    /\ InitStrategy
    /\ sensex_price_at_917 = 0
    /\ calc \in CalcInputs
    /\ cap = NoCap
    /\ trk = NoTrk
    /\ fetch = NoFetch
    /\ chain = NoChain

NextCalc ==
    \/ BuyStockPrices
    \/ StrikeRounding
    \/ ThursdayDate

SpecCalc == InitCalc /\ [][NextCalc]_vars

\* capture_sensex_price_at_917 on its own, from a fresh strategy object.
InitCapture ==
    /\ InitStrategy
    /\ sensex_price_at_917 = 0
    /\ calc = NoCalc
    /\ cap \in CapInputs
    /\ trk = NoTrk
    /\ fetch = NoFetch
    /\ chain = NoChain

NextCapture ==
    \/ CaptureEnter
    \/ CaptureLiveRead
    \/ CaptureLiveFails
    \/ CaptureLookup

SpecCapture == InitCapture /\ [][NextCapture]_vars

\* intraday_history_per_minute on its own.
InitFetch ==
    /\ InitStrategy
    /\ sensex_price_at_917 = 0
    /\ calc = NoCalc
    /\ cap = NoCap
    /\ trk = NoTrk
    /\ fetch \in FetchInputs
    /\ chain = NoChain

NextFetch ==
    \/ FetchAttempt
    \/ FetchGivesUp

SpecFetch == InitFetch /\ [][NextFetch]_vars

\* get_option_contracts on its own, with the pre-fetch thread in flight.
InitChain ==
    /\ InitStrategy
    /\ sensex_price_at_917 = 0
    /\ calc = NoCalc
    /\ cap = NoCap
    /\ trk = NoTrk
    /\ fetch = NoFetch
    /\ chain \in ChainInputs

NextChain ==
    \/ BackgroundFetch
    \/ ForegroundTest
    \/ ForegroundFetch
    \/ ForegroundHasattr
    \/ ForegroundToDict
    \/ ForegroundAssign
    \/ ForegroundLookup

SpecChain == InitChain /\ [][NextChain]_vars

\* track_high_prices on its own, from the strategy object as steps 1 and 2
\* of execute_strategy leave it.
InitTrack ==
    /\ pc = "track"
    /\ sensex_price = 810000
    /\ instrument_key = [L \in Legs |-> RoundedStrike(sensex_price)]
    /\ steps = <<"capture", "resolve">>
    /\ queued = 0
    /\ pending = <<>>
    /\ placed = [L \in Legs |-> <<>>]
    /\ high_price = [L \in Legs |-> 0]
    /\ gtt_order_id = [L \in Legs |-> None]
    /\ stoploss_hit_count = [L \in Legs |-> 0]
    /\ reentry_placed = FALSE
    /\ leg_reentry_placed = [L \in Legs |-> FALSE]
    /\ nextId = 1
    /\ live = [L \in Legs |-> 0]
    /\ nEvents = 0
    /\ buyCalls = 0
    /\ accepted = 0
    /\ terminated = FALSE
    /\ terminalIds = {}
    /\ last = NoEvent
    /\ sensex_price_at_917 = 0
    /\ calc = NoCalc
    /\ cap = NoCap
    /\ trk \in TrkInputs
    /\ fetch = NoFetch
    /\ chain = NoChain

NextTrack ==
    \/ ClockAdvances
    \/ TrackEnter
    \/ TrackLoop
    \/ WaitUntilTime
    \/ TrackReceive

SpecTrack == InitTrack /\ [][NextTrack]_vars

\* The same with the scheduling the event loop gives: the clock keeps
\* moving, and the coroutine is resumed whenever it can take a step (every
\* await in it has a timeout or polls once a second).
SpecTrackLive ==
    /\ SpecTrack
    /\ WF_vars(ClockAdvances)
    /\ WF_vars(TrackEnter)
    /\ WF_vars(TrackLoop)
    /\ WF_vars(WaitUntilTime)
    /\ WF_vars(TrackReceive)

(***************************************************************************)
(* Properties                                                              *)
(***************************************************************************)
\* The step takes one event off the queue and handles it.
HandlerStep == nEvents' = nEvents + 1

HitTotal == stoploss_hit_count["CE"] + stoploss_hit_count["PE"]

\* C1 (as stated): over any event sequence the event handler calls buyStock
\* at most once across both legs.
C1_AtMostOneBuyCall == buyCalls <= 1

\* C1 (amended): over any event sequence the broker accepts at most one
\* re-entry order across both legs, and an accepted re-entry leaves the
\* shared flag set; calls that failed are not counted.
C1_AtMostOneReentryAccepted ==
    /\ accepted <= 1
    /\ accepted = 1 => reentry_placed

\* C1 witness: a failed buyStock call was followed by an accepted one.
C1_Witness == accepted = 1 /\ buyCalls = 2

\* C2: each leg's stop-loss hit count is 0 or 1 and the sum over both legs
\* is 0, 1 or 2.
C2_HitCountAtMostOne ==
    /\ \A L \in Legs : stoploss_hit_count[L] \in {0, 1}
    /\ HitTotal \in {0, 1, 2}

\* C3: when a stop-loss event of one leg was handled with the budget unused
\* (the leg was resubmitted) and the next event is a stop-loss event of the
\* other leg, that second event makes no submission, cancels the first leg's
\* order (the one the broker holds for it) and ends with a total of 2, one
\* resubmission having been made in all.
C3_SecondStoplossTerminates ==
    [][ ( /\ last.branch = "StoplossPath"
          /\ last.buy = "ok"
          /\ HandlerStep
          /\ last'.branch = "StoplossPath"
          /\ last'.leg = Other(last.leg) )
        => ( /\ last'.buy = "none"
             /\ accepted' = 1
             /\ Len(last'.cancels) = 1
             /\ last'.cancels[1].arg = OrderId(live[last.leg])
             /\ terminated'
             /\ HitTotal' = 2 ) ]_vars

\* C4: once the termination branch has run, no event handled afterwards
\* makes a submission or a cancellation call.
C4_TerminalAfterDoubleStoploss ==
    [][ (terminated /\ HandlerStep) => (last'.buy = "none" /\ last'.cancels = <<>>) ]_vars

C6_CancelOnceOrTwice ==
    (last.branch = "TargetPath" /\ last.cancels[1].arg.kind = "id")
    => ( /\ Len(last.cancels) \in {1, 2}
         /\ last.cancels[1].result = "success" => Len(last.cancels) = 1
         /\ last.cancels[1].result # "success" => Len(last.cancels) = 2 )

\* C7: in the TARGET path of a leg whose sibling holds an order a failed
\* cancellation is retried once, the manual cancellation message appears
\* exactly when both attempts failed, and the winning leg ends terminal.
C7_FailedCancelRetriedOnce ==
    (last.branch = "TargetPath" /\ last.cancels[1].arg.kind = "id")
    => LET cs == last.cancels
           failed(i) == i <= Len(cs) /\ cs[i].result # "success"
       IN  /\ Len(cs) <= 2
           /\ failed(1) <=> Len(cs) = 2
           /\ last.manual <=> (failed(1) /\ failed(2))
           /\ gtt_order_id[last.leg] = None

\* C8: after a TARGET event of leg L every event carrying L's order id
\* leaves the strategy state unchanged, and the handler submits no order.
C8_TargetLegTerminal ==
    [][ HandlerStep
        => ( /\ last'.id \in terminalIds => UNCHANGED strategyVars
             /\ terminalIds # {} => (buyCalls' = buyCalls /\ last'.buy = "none") ) ]_vars

\* C8 witness: a conditional-order event carrying the id of a leg whose
\* target was handled before has been taken off the queue.
C8_Witness ==
    /\ last.ut = "gtt_order"
    /\ last.id \in terminalIds
    /\ last.branch = "NotOurs"

\* C9: after place_option_orders and after every accepted re-entry the
\* leg's stored order id is the identifier the broker gave that order.
C9_StoredIdIsBrokerId ==
    /\ (pc = "monitor" /\ nEvents = 0)
       => \A L \in Legs : live[L] # 0 => gtt_order_id[L] = OrderId(live[L])
    /\ last.buy = "ok" => gtt_order_id[last.leg] = OrderId(live[last.leg])

\* The status a well-formed rules list gives for one kind.
StatusOf(rules, kind) == rules[CHOOSE i \in 1..Len(rules) : rules[i].strategy = kind].status

\* The classifier as specified, over the three statuses.
Classify(e, s, t) ==
    IF e = "FAILED" THEN "EntryFailed"
    ELSE IF s \in {"ACTIVE", "TRIGGERED", "CANCELLED", "COMPLETED"} /\ t = "CANCELLED"
    THEN "StoplossPath"
    ELSE IF t \in {"ACTIVE", "TRIGGERED", "COMPLETED"} THEN "TargetPath"
    ELSE "NoOp"

\* C10: for an event of one of the two legs carrying all three rules, the
\* branch the handler takes is the one the specified classifier gives for
\* the three statuses, and the NoOp branch changes no state.
C10_BranchMatchesClassifier ==
    [][ (HandlerStep /\ last'.leg \in Legs /\ last'.rules \in WellFormedRules)
        => ( /\ last'.branch = Classify(StatusOf(last'.rules, "ENTRY"),
                                        StatusOf(last'.rules, "STOPLOSS"),
                                        StatusOf(last'.rules, "TARGET"))
             /\ last'.branch = "NoOp"
                => UNCHANGED <<strategyVars, nextId, live, buyCalls, accepted,
                               terminated, terminalIds>> ) ]_vars

\* C10 witness: an event with STOPLOSS COMPLETED and TARGET CANCELLED took
\* the stop-loss branch.
C10_Witness ==
    /\ last.leg \in Legs
    /\ last.rules \in WellFormedRules
    /\ StatusOf(last.rules, "STOPLOSS") = "COMPLETED"
    /\ StatusOf(last.rules, "TARGET") = "CANCELLED"
    /\ last.branch = "StoplossPath"

\* C11: an event whose update type is not "gtt_order", or whose order id is
\* the id stored for neither leg, is ignored: the handler changes no field of
\* the strategy and makes no buyStock and no cancel_gtt_order call.
C11_UnrelatedEventIgnored ==
    [][(HandlerStep /\ (\/ last'.ut # "gtt_order"
                        \/ \A L \in Legs : gtt_order_id[L] # OrderId(last'.id)))
        => /\ UNCHANGED strategyVars
           /\ buyCalls' = buyCalls
           /\ last'.buy = "none"
           /\ last'.cancels = <<>>]_vars

\* A gtt_order event for an order of neither leg, handled while a leg holds one.
C11_Witness ==
    /\ last.ut = "gtt_order"
    /\ last.branch = "NotOurs"
    /\ \E L \in Legs : gtt_order_id[L].kind = "id"

\* C12 (as stated): an event for one of our orders whose rules list lacks
\* one of the kinds ENTRY, STOPLOSS, TARGET, the empty list included, is
\* ignored: no field of the strategy changes and no broker call is made.
C12_MalformedRulesIgnored ==
    [][(HandlerStep /\ last'.leg \in Legs /\ last'.rules \in MalformedRules)
        => /\ UNCHANGED strategyVars
           /\ last'.buy = "none"
           /\ last'.cancels = <<>>]_vars

\* The startup steps in the order the strategy is documented to run them.
PipelineSteps == <<"capture", "resolve", "track", "place", "monitor">>

\* C13 (as stated): execute_strategy runs capture, resolve, track, place,
\* monitor in this order; once tracking has ended with both highs positive it
\* has submitted both legs and started monitoring; and nothing is ever
\* submitted while a leg's high is not positive.
C13_PipelineSubmitsAndMonitors ==
    /\ \E n \in 0..Len(PipelineSteps) : steps = SubSeq(PipelineSteps, 1, n)
    /\ (/\ pc \notin {"start", "resolve", "track"}
        /\ Len(steps) >= 3
        /\ \A L \in Legs : high_price[L] > 0)
       => steps = PipelineSteps
    /\ (\E L \in Legs : high_price[L] <= 0) => nextId = 1

\* Both legs are terminal: a TARGET event has been handled, or the branch
\* "combined stop-loss count == 2" has run.
RunResolved == terminated \/ terminalIds # {}

\* C14 (as stated): once both legs are terminal the monitoring loop has
\* stopped: it takes no further event off the queue.
C14_StopsWhenBothTerminal ==
    [][(pc = "monitor" /\ RunResolved) => ~HandlerStep]_vars

C16_StoplossThenTargetScenario ==
    [][(/\ high_price = [CE |-> 260, PE |-> 230]
        /\ instrument_key = [L \in Legs |-> 81000]
        /\ nEvents = 1
        /\ last.branch = "StoplossPath" /\ last.leg = "CE" /\ last.buy = "ok"
        /\ HandlerStep
        /\ last'.branch = "TargetPath" /\ last'.leg = "PE")
        => /\ buyCalls' = 1 /\ accepted' = 1
           /\ last.base = 260
           /\ gtt_order_id'["PE"] = None
           /\ Len(last'.cancels) >= 1
           /\ last'.cancels[1].arg = OrderId(live["CE"])]_vars

\* A price in hundredths of a rupee, in the unit of the computation.
Paise(n) == n * PriceScale

\* x raised by pct hundredths of a percent (lowered for a negative pct).
WithPercent(x, pct) == x + (x \div 10000) * pct + ((x % 10000) * pct) \div 10000

\* m is a multiple of the tick nearest to x (either neighbour on a tie).
NearestTick(m, x) ==
    /\ m % TickSize = 0
    /\ 2 * (IF m >= x THEN m - x ELSE x - m) <= TickSize

\* C17 (as stated): with tick rounding on, the order carries an ENTRY
\* trigger at tick(base * (1 + buyPct/100)), a STOPLOSS at
\* tick(buy * (1 - stopPct/100)) and a TARGET at tick(buy * (1 + targetPct/100)),
\* for the configured percentages.
C17_RulePricesFromConfiguredPercentages ==
    (calc.fn = "buyStock" /\ calc.done /\ calc.tick_size)
    => /\ NearestTick(calc.out[1], WithPercent(Paise(calc.arg), calc.pct[1]))
       /\ NearestTick(calc.out[2], WithPercent(calc.out[1], 0 - calc.pct[2]))
       /\ NearestTick(calc.out[3], WithPercent(calc.out[1], calc.pct[3]))

\* C18 (as stated): base price 250 with tick rounding on and the default
\* percentages gives buy price 253.75, stop-loss 250.45 and target 260.10.
C18_WorkedExample ==
    (/\ calc.fn = "buyStock" /\ calc.done /\ calc.tick_size
     /\ calc.arg = 25000 /\ calc.pct = DefaultPercentages)
    => calc.out = <<Paise(25375), Paise(25045), Paise(26010)>>

\* C19 (as stated): tick rounding takes 256.07 to 256.05; with tick rounding
\* off the buy price is still base * (1 + buyPct/100) and the stop-loss and
\* target are derived from it, only without rounding.
C19_TickOffKeepsMarkup ==
    /\ round_to_tick_size(Paise(25607)) = Paise(25605)
    /\ (calc.fn = "buyStock" /\ calc.done /\ ~calc.tick_size)
       => LET buy == WithPercent(Paise(calc.arg), calc.pct[1])
          IN  /\ calc.out[1] = buy
              /\ calc.out[2] = WithPercent(buy, 0 - calc.pct[2])
              /\ calc.out[3] = WithPercent(buy, calc.pct[3])

\* The distance of a strike from a price in tenths of a point, in tenths.
StrikeDistance(strike, price) ==
    IF strike * 10 >= price THEN strike * 10 - price ELSE price - strike * 10

\* C20 (as stated): the strike is the price rounded to the nearest multiple
\* of 100 with ties going up: 81423.7 gives 81400 and 81450 gives 81500.
C20_StrikeRoundsHalfUp ==
    (calc.fn = "strike" /\ calc.done)
    => /\ calc.out[1] % 100 = 0
       /\ StrikeDistance(calc.out[1], calc.arg) <= 500
       /\ StrikeDistance(calc.out[1], calc.arg) = 500 => calc.out[1] * 10 > calc.arg
       /\ calc.arg = 814237 => calc.out[1] = 81400
       /\ calc.arg = 814500 => calc.out[1] = 81500

\* C20 (amended): the strike is the price rounded to the nearest multiple of
\* 100, a tie going to the multiple whose count of hundreds is even: 81423.7
\* gives 81400, 81450 gives 81400 and 81550 gives 81600.
C20_StrikeRoundsHalfToEven ==
    (calc.fn = "strike" /\ calc.done)
    => /\ calc.out[1] % 100 = 0
       /\ StrikeDistance(calc.out[1], calc.arg) <= 500
       /\ StrikeDistance(calc.out[1], calc.arg) = 500 => (calc.out[1] \div 100) % 2 = 0
       /\ calc.arg = 814237 => calc.out[1] = 81400
       /\ calc.arg = 814500 => calc.out[1] = 81400
       /\ calc.arg = 815500 => calc.out[1] = 81600

\* The rounding applied to a price halfway between two strikes.
C20_Witness ==
    /\ calc.fn = "strike" /\ calc.done
    /\ calc.arg = 814500
    /\ calc.out[1] = 81400

\* C21: for every today, get_thursday_date returns today plus
\* (3 - weekday + 7) mod 7 days: a Thursday, today itself when today is a
\* Thursday, otherwise the first Thursday after today, 1 to 6 days ahead.
C21_NextThursdayOnOrAfterToday ==
    (calc.fn = "thursday" /\ calc.done)
    => LET today  == calc.arg
           result == calc.out[1]
       IN  /\ result = today + ((3 - Weekday(today) + 7) % 7)
           /\ Weekday(result) = 3
           /\ Weekday(today) = 3 => result = today
           /\ Weekday(today) # 3 => result - today \in 1..6
           /\ \A d \in today..(result - 1) : Weekday(d) # 3

\* The function applied on a Thursday.
C21_Witness ==
    /\ calc.fn = "thursday" /\ calc.done
    /\ Weekday(calc.arg) = 3
    /\ calc.out[1] = calc.arg

\* Strike resolution has run and left a leg without a contract.
ResolutionFailed ==
    /\ \E i \in 1..Len(steps) : steps[i] = "resolve"
    /\ \E L \in Legs : instrument_key[L] = 0

\* C22: when strike resolution fails (an empty chain, no CE or no PE
\* contract at the rounded strike) the run is aborted: tracking is not
\* started, neither leg gets a contract, a high or an order, and nothing is
\* ever submitted or cancelled.
C22_FailedResolutionAbortsRun ==
    ResolutionFailed
    => /\ pc \notin {"resolve", "track"}
       /\ \A L \in Legs : /\ instrument_key[L] = 0
                            /\ high_price[L] = 0
                            /\ gtt_order_id[L] = None
                            /\ live[L] = 0
       /\ nextId = 1
       /\ buyCalls = 0
       /\ last.buy = "none" /\ last.cancels = <<>>

\* The run went on to the monitoring loop after a failed resolution and an
\* event was handled.
C22_Witness ==
    /\ ResolutionFailed
    /\ pc = "monitor"
    /\ nEvents > 0

\* C29: in the live path capture_sensex_price_at_917 makes at most 10 reads
\* of the feed, received ticks and timed-out waits alike: it returns the
\* price of the first tick with a positive price, and after 10 reads
\* without one it has failed with the capture error; there is no 11th read.
C29_LiveCaptureReadsAtMostTen ==
    ~cap.late
    => /\ cap.reads <= max_attempts
       /\ (cap.reads = max_attempts /\ cap.result # "price")
             => (cap.stage = "done" /\ cap.result = "capture_failed")
       /\ cap.result = "price" => sensex_price \in SnapshotPrices

\* C30: in the historical path capture returns the open of the bar of the
\* capture instant, retries exactly once after the grace period when that
\* bar is absent, and otherwise fails with the capture error; it never
\* returns an empty price.
C30_HistoricalCaptureNeverReturnsEmpty ==
    (cap.late /\ cap.stage = "done")
    => /\ cap.lookups <= 2
       /\ \/ cap.result = "price" /\ sensex_price \in SnapshotPrices /\ pc = "resolve"
          \/ cap.result = "capture_failed" /\ pc = "ready"

\* C23: while track_high_prices runs, each leg's high equals the maximum of
\* the candidates folded into it so far (live ticks, catch-up bar highs and
\* replayed bar highs; 0 if none), and no step lowers or resets it.
C23_HighIsRunningMaximum ==
    /\ [](trk.stage # "idle" => \A L \in Legs : high_price[L] = trk.seen[L])
    /\ [][\A L \in Legs : high_price'[L] >= high_price[L]]_vars

\* Both kinds of fold have happened: a history fold on entry inside the
\* window and live ticks after it, with different highs for the two legs.
C23_Witness ==
    /\ trk.stage = "done" /\ trk.result = "returned"
    /\ trk.entry = trk.start_time
    /\ trk.offered["PE"] = 230
    /\ high_price = [CE |-> 230, PE |-> 260]

Min(S) == CHOOSE x \in S : \A y \in S : x <= y

\* The loop was first reached at or before the window start and went on to
\* live tracking.
EnteredLive == trk.entry # -1 /\ trk.entry <= trk.start_time /\ ~trk.replayed

\* C24: entered at or before the window start, track_high_prices returns
\* only at the window end or the exit time, whichever is first, and each
\* leg's high is then at least every positive last traded price received
\* for that leg inside the window.
C24_LiveTrackingLastsUntilWindowEnd ==
    (EnteredLive /\ trk.stage = "done" /\ trk.result = "returned")
    => /\ trk.returned_at >= Min({trk.end_time, trk.exit_time})
       /\ \A L \in Legs : high_price[L] >= trk.window_offered[L]

\* C25: during live tracking every decoded tick that carries a leg's
\* instrument with a positive last traded price is folded into that leg's
\* high, whatever else the message carries and whether or not the catch-up
\* read fires: the high is never below such a price.
C25_EveryPositiveTickFolded ==
    \A L \in Legs : high_price[L] >= trk.offered[L]

\* C26: on entering track_high_prices the one-shot replay takes the place of
\* live tracking exactly when the time is later than the window start plus
\* one minute, for every window start.
C26_ReplayIffPastStartPlusOne ==
    trk.entry # -1 => (trk.replayed <=> trk.entry > trk.start_time + 1)

\* C27: track_high_prices terminates: once the time is at or past the exit
\* time it returns, whatever the window and the feed did, and it returns
\* normally, not by an error.
C27_ReturnsAtExitTime ==
    /\ (trk.stage # "idle" /\ trk.now >= trk.exit_time) ~> (trk.stage = "done")
    /\ []((trk.stage = "done" /\ trk.returned_at >= trk.exit_time) => trk.result = "returned")

\* The poll of wait_until_time that returns.
WaitReturns == trk.stage = "wait" /\ trk'.stage # "wait"

\* C28: wait_until_time(target) returns only when the clock is at or past
\* target, returns without sleeping when that was so on entry, returns
\* eventually as the clock advances, and changes no strategy state.
C28_WaitUntilTime ==
    /\ [][WaitReturns => trk.now >= trk.start_time]_vars
    /\ [][(WaitReturns /\ trk.wait_entry >= trk.start_time) => ~trk.slept]_vars
    /\ (trk.stage = "wait") ~> (trk.stage # "wait")
    /\ [][(trk.stage = "wait" /\ trk'.now = trk.now)
            => /\ UNCHANGED <<pc, sensex_price, instrument_key, steps, high_price>>
               /\ UNCHANGED trackVars]_vars

\* wait_until_time was entered before the target, slept, and has returned.
C28_Witness ==
    /\ trk.stage = "recv"
    /\ trk.wait_entry < trk.start_time /\ trk.slept
    /\ trk.now >= trk.start_time

\* C31: a history read of the tracker that returns no data for a leg is not
\* fatal: track_high_prices is never left by the error of such a read, it
\* goes on or returns normally.
C31_HistoryFailureNonFatal ==
    trk.stage = "done" => trk.result = "returned"

\* C32: the stream's thread only appends to the queue; the order ids, the
\* stop-loss counters and the re-entry flags change only in steps of the
\* main flow; the loop takes the events one at a time in arrival order and
\* none twice.
C32_QueueSerialisesEvents ==
    /\ [](pending = [i \in 1..queued |-> nEvents + i])
    /\ [][HandlerStep => pending = <<nEvents + 1>> \o pending']_vars
    /\ [][(pending' # pending /\ ~HandlerStep)
            => /\ pending' = Append(pending, nEvents + queued + 1)
               /\ UNCHANGED <<strategyVars, nextId, live, buyCalls, accepted, terminated, terminalIds, last>>]_vars
    /\ [][strategyVars' # strategyVars => (HandlerStep \/ pc = "ready")]_vars

\* Two events have been handled, one of them a stop-loss, while a third
\* waits in the queue.
C32_Witness ==
    /\ nEvents = 2 /\ pending = <<3>>
    /\ HitTotal > 0

\* C39: with a price supplied at construction execute_strategy skips the
\* capture, resolves the strikes from the supplied price and goes on to
\* tracking as after a captured price.
C39_SuppliedPriceSkipsCapture ==
    (sensex_price_at_917 # 0 /\ pc # "start")
    => /\ \A i \in 1..Len(steps) : steps[i] # "capture"
       /\ Len(steps) >= 1 /\ steps[1] = "resolve"
       /\ \A L \in Legs : instrument_key[L] = RoundedStrike(sensex_price_at_917)

\* C33: intraday_history_per_minute makes at most max_retries requests,
\* returns the first non-empty HTTP 200 JSON response without a further
\* request, sleeps only between attempts, and returns None, without
\* raising, after max_retries failed attempts.
C33_BoundedRetries ==
    /\ Len(fetch.log) <= fetch.max_retries
    /\ \A i \in 1..Len(fetch.log) :
          fetch.log[i] = "data" => (i = Len(fetch.log) /\ fetch.result = "data")
    /\ fetch.sleeps = Cardinality({ i \in 1..Len(fetch.log) :
                                       fetch.log[i] # "data" /\ i < fetch.max_retries })
    /\ fetch.stage = "done"
          => /\ fetch.result \in {"data", "None"}
             /\ fetch.result = "None" => (Len(fetch.log) = fetch.max_retries /\ ~fetch.slept_last)
             /\ fetch.result = "data" => fetch.log[Len(fetch.log)] = "data"

\* Three failed requests with a sleep after the first and the second only,
\* then None.
C33_Witness ==
    /\ fetch.stage = "done" /\ fetch.result = "None"
    /\ fetch.max_retries = 3 /\ Len(fetch.log) = 3 /\ fetch.sleeps = 2

\* A call of place_option_orders (the stream's thread may put events in the
\* queue while in "ready"; that is not such a step).
PlaceStep == pc = "ready" /\ pending' = pending

\* C36: after place_option_orders has returned either both legs have an
\* order id or neither has.
C36_BothLegsOrNeither ==
    (pc = "monitor" /\ nEvents = 0)
    => (gtt_order_id["CE"].kind = "none" <=> gtt_order_id["PE"].kind = "none")

C34_FailedReentryKeepsFlagAndId ==
    [][(HandlerStep /\ last'.buy \in {"apiexc", "raise"})
          => /\ reentry_placed' = reentry_placed
             /\ gtt_order_id' = gtt_order_id]_vars

\* C35: every cancellation the handler issues carries the order id the
\* broker gave to the sibling leg's live order.
C35_CancelCarriesLiveSiblingId ==
    [][HandlerStep
          => \A i \in 1..Len(last'.cancels) :
                last'.cancels[i].arg = OrderId(live[Other(last'.leg)])]_vars

\* An order id the broker gave out that is no leg's latest accepted order:
\* the previous id of a leg that has been re-entered.
PreviousId(id) == id \in 1..(nextId - 1) /\ \A L \in Legs : live[L] # id

\* C38: once a leg has been re-entered, an event that carries the leg's
\* previous order id is dropped as not ours and changes nothing of the
\* strategy's state.
C38_StaleEventDropped ==
    [][(HandlerStep /\ PreviousId(last'.id))
          => /\ last'.branch \in {"NotGtt", "NotOurs"}
             /\ last'.buy = "none" /\ last'.cancels = <<>>
             /\ UNCHANGED strategyVars
             /\ UNCHANGED <<buyCalls, terminated, terminalIds>>]_vars

\* A gtt_order event with the id of the order that a re-entry replaced has
\* been handled.
C38_Witness ==
    /\ last.ut = "gtt_order" /\ last.branch = "NotOurs"
    /\ PreviousId(last.id)
    /\ accepted = 1 /\ nEvents >= 2
    /\ \E L \in Legs : gtt_order_id[L].kind # "none" /\ live[L] > last.id

\* C40: whenever the main thread has obtained a chain that lists contracts
\* (found in the field or fetched by itself), get_option_contracts performs
\* its lookup on that chain, whatever the pre-fetch thread does meanwhile.
C40_LookupOnObtainedChain ==
    (chain.stage = "run" /\ chain.fg = "done" /\ chain.obtained.data = "full")
        => /\ chain.result \in {"keys", "ValueError"}
           /\ chain.response_dict = chain.obtained
====
